---- MODULE Spec2Model ----
(***************************************************************************)
(* A model of extensions/amp-video/0.1/amp-video.js: the AmpVideo custom   *)
(* element, its lifecycle callbacks, its VideoInterface methods and the    *)
(* listeners it installs on the native video element.                      *)
(*                                                                         *)
(* One action per host callback, interface method, native event or promise *)
(* continuation.  A callback that throws leaves the effects it had before  *)
(* the throw and records the throw in `last`.                              *)
(***************************************************************************)
EXTENDS Naturals, Sequences, FiniteSets

VARIABLES
    attrs,            \* attributes of the <amp-video> element (this.element)
    children,         \* the element's real child nodes, in document order
    videoHasPlay,     \* whether the native video object has a play member
    video_,           \* this.video_ is non-null (buildCallback has run)
    vattrs,           \* attributes of the native <video> element
    videoChildren,    \* nodes appended under the native video, in order
    vmuted,           \* the native video's muted property
    muted_,           \* this.muted_
    metadata_,        \* this.metadata_
    listeners,        \* listeners on the native video, in registration order
    fallback,         \* the fallback UI is toggled on
    layoutCalled,     \* layoutCallback has been called at least once
    calls,            \* one record per layoutCallback call that returned a promise
    plays,            \* one record per promise returned by the native play()
    events,           \* custom events dispatched on the element, oldest first
    last              \* the last host call: its name and whether it threw

vars == <<attrs, children, videoHasPlay, video_, vattrs, videoChildren, vmuted,
          muted_, metadata_, listeners, fallback, layoutCalled, calls, plays,
          events, last>>

-----------------------------------------------------------------------------
(* Bounds of the model. *)

MaxChildren == 2      \* child nodes of the element
MaxLayouts == 2       \* layoutCallback calls that return a promise
MaxPlays == 2         \* promises returned by the native play()
MaxEvents == 3        \* custom events kept in the log
MaxReported == 2      \* attributes one mutatedAttributesCallback call reports

-----------------------------------------------------------------------------
(* Values. *)

\* JavaScript null: what getAttribute returns for an absent attribute, and
\* the value a removal is reported with.
None == "null"

Secure == "https://cdn.example/v.mp4"
NonSecure == "http://cdn.example/v.mp4"

\* JavaScript truthiness of a string-or-null value.
Truthy(v) == v # None /\ v # ""

\* v || ''
OrEmpty(v) == IF Truthy(v) THEN v ELSE ""

\* a || b || ''
FirstTruthy(a, b) == IF Truthy(a) THEN a ELSE OrEmpty(b)

\* Whether assertHttpsUrl(url, ...) returns (TRUE) or throws (FALSE).
AssertHttpsUrl(url) == url = Secure

\* A URL that is present, non-empty and not secure.
IsNonSecureUrl(url) == Truthy(url) /\ ~AssertHttpsUrl(url)

ATTRS_TO_PROPAGATE_ON_BUILD ==
    <<"aria-describedby", "aria-label", "aria-labelledby", "controls",
      "crossorigin", "poster", "controlsList">>

ATTRS_TO_PROPAGATE_ON_LAYOUT == <<"src", "loop", "preload">>

ATTRS_TO_PROPAGATE == ATTRS_TO_PROPAGATE_ON_BUILD \o ATTRS_TO_PROPAGATE_ON_LAYOUT

Range(s) == {s[i] : i \in 1..Len(s)}

MetadataAttrs == {"title", "artist", "album", "artwork"}

\* Every attribute of the element the class reads.
AttrNames == Range(ATTRS_TO_PROPAGATE) \cup MetadataAttrs

\* Every attribute of the native video the class writes.
VideoAttrNames == Range(ATTRS_TO_PROPAGATE) \cup {"playsinline", "webkit-playsinline"}

EMPTY_METADATA == [title |-> "", artist |-> "", album |-> "", artwork |-> ""]

VideoEvents ==
    [LOAD |-> "load", RELOAD |-> "reloaded", PLAYING |-> "playing",
     PAUSE |-> "pause", ENDED |-> "ended", MUTED |-> "muted",
     UNMUTED |-> "unmuted"]

\* element.dispatchCustomEvent(type): the event, with the native video's src
\* attribute as a listener sees it at the moment of the dispatch.
CustomEvent(type, videoAttrs) == [type |-> type, videoSrc |-> videoAttrs["src"]]

\* BaseElement.propagateAttributes(names, video, /* removeMissing */ true):
\* each named attribute is copied from the element, or removed when absent.
PropagateAttributes(names, element, target) ==
    [a \in DOMAIN target |-> IF a \in names THEN element[a] ELSE target[a]]

NoAttrs(names) == [a \in names |-> None]

-----------------------------------------------------------------------------
(* Nodes.  A child node is a record [tag, src]; a "#text" node has no       *)
(* getAttribute method.  buildCallback appends the native video after the   *)
(* element's children, so in document order the element's descendants are   *)
(* its remaining children followed by the nodes moved under the video.      *)

ChildKinds ==
    { [tag |-> "source", src |-> Secure],
      [tag |-> "source", src |-> NonSecure],
      [tag |-> "source", src |-> ""],
      [tag |-> "track", src |-> NonSecure],
      [tag |-> "#text", src |-> None] }

SeqsUpTo(S, n) == UNION {[1..k -> S] : k \in 0..n}

RECURSIVE FirstByTag(_, _)
\* elementByTag(element, tag) over the descendants `nodes`: <<node>> for the
\* first node with that tag, <<>> (null) when there is none.
FirstByTag(nodes, tag) ==
    IF nodes = <<>> THEN <<>>
    ELSE IF Head(nodes).tag = tag THEN <<Head(nodes)>>
    ELSE FirstByTag(Tail(nodes), tag)

\* getVideoSource_()
GetVideoSource_(element, descendants) ==
    LET videoSrc == element["src"]
        source == FirstByTag(descendants, "source")
    IN  IF ~Truthy(videoSrc) /\ source # <<>> THEN source[1].src ELSE videoSrc

\* A faulty variant of ChildPasses: the loop appends the child without the assertion.
ChildPassesUnchecked(child) == TRUE

\* The test of layoutCallback's loop body: the child is appended (TRUE) or
\* the assertion on its src throws (FALSE).
ChildPasses(child) ==
    (child.tag # "#text" /\ Truthy(child.src)) => AssertHttpsUrl(child.src)

RECURSIVE PassingPrefix(_)
\* How many leading children the forEach of layoutCallback appends before
\* one throws (all of them when none throws).
PassingPrefix(kids) ==
    IF kids = <<>> \/ ~ChildPasses(Head(kids)) THEN 0
    ELSE 1 + PassingPrefix(Tail(kids))

-----------------------------------------------------------------------------
(* The state after construction. *)

Element(given) == [a \in AttrNames |-> IF a \in DOMAIN given THEN given[a] ELSE None]

InitWith(elements, kids) ==
    /\ attrs \in elements
    /\ children \in kids
    /\ videoHasPlay \in BOOLEAN
    /\ video_ = FALSE
    /\ vattrs = NoAttrs(VideoAttrNames)
    /\ videoChildren = <<>>
    /\ vmuted = FALSE
    /\ muted_ = FALSE
    /\ metadata_ = EMPTY_METADATA
    /\ listeners = <<>>
    /\ fallback = FALSE
    /\ layoutCalled = FALSE
    /\ calls = <<>>
    /\ plays = <<>>
    /\ events = <<>>
    /\ last = [op |-> "constructor", threw |-> FALSE]

Returned(op) == [op |-> op, threw |-> FALSE]
Threw(op) == [op |-> op, threw |-> TRUE]

-----------------------------------------------------------------------------
(* preconnectCallback *)

PreconnectThrows(element, descendants) ==
    LET videoSrc == GetVideoSource_(element, descendants)
    IN  Truthy(videoSrc) /\ ~AssertHttpsUrl(videoSrc)

PreconnectCallback ==
    /\ last' = IF PreconnectThrows(attrs, children \o videoChildren)
               THEN Threw("preconnect") ELSE Returned("preconnect")
    /\ UNCHANGED <<attrs, children, videoHasPlay, video_, vattrs, videoChildren,
                   vmuted, muted_, metadata_, listeners, fallback, layoutCalled,
                   calls, plays, events>>

-----------------------------------------------------------------------------
(* buildCallback *)

\* A faulty variant of InstallEventHandlers_: the 'ended' listener that dispatches
\* PAUSE is registered before the forwarding listeners.
InstallEventHandlersPauseFirst ==
    << [event |-> "ended", handler |-> "dispatchPause"],
       [event |-> VideoEvents.PLAYING, handler |-> "forward"],
       [event |-> VideoEvents.PAUSE, handler |-> "forward"],
       [event |-> VideoEvents.ENDED, handler |-> "forward"],
       [event |-> "volumechange", handler |-> "mirrorMuted"] >>

\* installEventHandlers_(): the listeners in the order they are registered.
InstallEventHandlers_ ==
    << [event |-> VideoEvents.PLAYING, handler |-> "forward"],
       [event |-> VideoEvents.PAUSE, handler |-> "forward"],
       [event |-> VideoEvents.ENDED, handler |-> "forward"],
       [event |-> "volumechange", handler |-> "mirrorMuted"],
       [event |-> "ended", handler |-> "dispatchPause"] >>

\* The native video as buildCallback leaves it.
BuiltVideo(element) ==
    PropagateAttributes(
        Range(ATTRS_TO_PROPAGATE_ON_BUILD), element,
        [NoAttrs(VideoAttrNames) EXCEPT !["playsinline"] = "",
                                        !["webkit-playsinline"] = "",
                                        !["preload"] = "none"])

\* The metadata record buildCallback gathers.
GatherMetadata(element) ==
    [title |-> OrEmpty(element["title"]),
     artist |-> OrEmpty(element["artist"]),
     album |-> OrEmpty(element["album"]),
     artwork |-> FirstTruthy(element["artwork"], element["poster"])]

BuildCallback ==
    /\ ~video_
    /\ video_' = TRUE
    /\ vattrs' = BuiltVideo(attrs)
    /\ listeners' = InstallEventHandlers_
    /\ metadata_' = GatherMetadata(attrs)
    /\ last' = Returned("build")
    /\ UNCHANGED <<attrs, children, videoHasPlay, videoChildren, vmuted, muted_,
                   fallback, layoutCalled, calls, plays, events>>

-----------------------------------------------------------------------------
(* mutatedAttributesCallback(mutations).  The host changes the attributes  *)
(* on the element and then reports each changed attribute with its new     *)
(* value: None for a removal.  m is the mutations object: its domain is    *)
(* the set of reported attributes.                                         *)

\* mutations[a] !== undefined
Reported(m, a) == a \in DOMAIN m

\* mutations[a], as a condition
Mutated(m, a) == a \in DOMAIN m /\ Truthy(m[a])

\* The element once the host has applied the mutations.
Apply(m, element) ==
    [a \in DOMAIN element |-> IF a \in DOMAIN m THEN m[a] ELSE element[a]]

\* The guard of the src assertion.
MutatedChecksSrc(m) == Mutated(m, "src")

\* A faulty variant of MutatedPropagates: every attribute is propagated, reported or not.
MutatedPropagatesAll(m) == Range(ATTRS_TO_PROPAGATE)

\* ATTRS_TO_PROPAGATE.filter(value => mutations[value] !== undefined)
MutatedPropagates(m) == {a \in Range(ATTRS_TO_PROPAGATE) : Reported(m, a)}

\* The guard of the RELOAD dispatch.
MutatedReloads(m) == Mutated(m, "src")

\* The RELOAD event, dispatched after the propagation: a listener sees the
\* video as the propagation left it (`after`), not as it was (`before`).
ReloadEvent(before, after) == CustomEvent(VideoEvents.RELOAD, after)

\* The updates of this.metadata_.
MutatedMetadata(m, element, metadata) ==
    [title |-> IF Mutated(m, "title")
               THEN OrEmpty(element["title"]) ELSE metadata.title,
     artist |-> IF Mutated(m, "artist")
                THEN OrEmpty(element["artist"]) ELSE metadata.artist,
     album |-> IF Mutated(m, "album")
               THEN OrEmpty(element["album"]) ELSE metadata.album,
     artwork |-> IF Mutated(m, "artwork") \/ Mutated(m, "poster")
                 THEN FirstTruthy(element["artwork"], element["poster"])
                 ELSE metadata.artwork]

MutatedAttributesCallback(m) ==
    /\ DOMAIN m # {}
    /\ \A a \in DOMAIN m : m[a] # attrs[a]
    /\ attrs' = Apply(m, attrs)
    /\ IF ~video_
       THEN /\ last' = Returned("mutated")
            /\ UNCHANGED <<vattrs, metadata_, events>>
       ELSE IF MutatedChecksSrc(m) /\ ~AssertHttpsUrl(attrs'["src"])
       THEN /\ last' = Threw("mutated")
            /\ UNCHANGED <<vattrs, metadata_, events>>
       ELSE /\ MutatedReloads(m) => Len(events) < MaxEvents
            /\ vattrs' = PropagateAttributes(MutatedPropagates(m), attrs', vattrs)
            /\ events' = IF MutatedReloads(m)
                         THEN Append(events, ReloadEvent(vattrs, vattrs'))
                         ELSE events
            /\ metadata_' = MutatedMetadata(m, attrs', metadata_)
            /\ last' = Returned("mutated")
    /\ UNCHANGED <<children, videoHasPlay, video_, videoChildren, vmuted, muted_,
                   listeners, fallback, layoutCalled, calls, plays>>

\* The mutations objects that report at most MaxReported of the attributes
\* DOMAIN values, attribute a taking its new value in values[a].
Mutations(values) ==
    UNION { {m \in [K -> UNION {values[a] : a \in K}] :
                \A a \in K : m[a] \in values[a]} :
            K \in {J \in SUBSET (DOMAIN values) : Cardinality(J) <= MaxReported} }

-----------------------------------------------------------------------------
(* layoutCallback *)

\* A faulty variant of IsVideoSupported_: the play member is not looked at.
IsVideoSupportedAlways == TRUE

\* isVideoSupported_()
IsVideoSupported_ == videoHasPlay

\* supportsPlatform()
SupportsPlatform == IsVideoSupported_

\* A faulty variant of LayoutSrcThrows: the element's own src is not asserted.
LayoutSrcUnchecked(element) == FALSE

\* The guard of the assertion on the element's own src.
LayoutSrcThrows(element) ==
    Truthy(element["src"]) /\ ~AssertHttpsUrl(element["src"])

\* A call's record: the promise loadPromise(video) returned (none when the
\* video is not supported), the promise layoutCallback returned, and the
\* number of LOAD events the call's continuation has dispatched.
CallRecord(load, ret) == [load |-> load, ret |-> ret, loads |-> 0]

LayoutCallback ==
    /\ video_
    /\ Len(calls) < MaxLayouts
    /\ layoutCalled' = TRUE
    /\ IF ~IsVideoSupported_
       THEN /\ fallback' = TRUE
            /\ calls' = Append(calls, CallRecord("none", "resolved"))
            /\ last' = Returned("layout")
            /\ UNCHANGED <<vattrs, children, videoChildren>>
       ELSE IF LayoutSrcThrows(attrs)
       THEN /\ last' = Threw("layout")
            /\ UNCHANGED <<vattrs, children, videoChildren, fallback, calls>>
       ELSE LET n == PassingPrefix(children)
            IN  /\ vattrs' = PropagateAttributes(
                                 Range(ATTRS_TO_PROPAGATE_ON_LAYOUT), attrs, vattrs)
                /\ videoChildren' = videoChildren \o SubSeq(children, 1, n)
                /\ children' = SubSeq(children, n + 1, Len(children))
                /\ IF n < Len(children)
                   THEN last' = Threw("layout") /\ calls' = calls
                   ELSE /\ last' = Returned("layout")
                        /\ calls' = Append(calls, CallRecord("pending", "pending"))
                /\ UNCHANGED fallback
    /\ UNCHANGED <<attrs, videoHasPlay, video_, vmuted, muted_, metadata_,
                   listeners, plays, events>>

\* The native video settles the promise loadPromise(video) returned to
\* call i.
LoadPromiseSettle(i, outcome) ==
    /\ i \in 1..Len(calls)
    /\ calls[i].load = "pending"
    /\ calls' = [calls EXCEPT ![i].load = outcome]
    /\ UNCHANGED <<attrs, children, videoHasPlay, video_, vattrs, videoChildren,
                   vmuted, muted_, metadata_, listeners, fallback, layoutCalled,
                   plays, events, last>>

\* Whether the continuation of call c may run: its load promise is settled
\* and the promise it settles is still pending.
LoadThenReady(c) == c.load \in {"resolved", "rejected"} /\ c.ret = "pending"

\* A faulty variant of LoadThen: LOAD is dispatched without waiting for the load
\* promise.
LoadThenEager(i) ==
    /\ i \in 1..Len(calls)
    /\ calls[i].load # "none" /\ calls[i].ret = "pending"
    /\ Len(events) < MaxEvents
    /\ events' = Append(events, CustomEvent(VideoEvents.LOAD, vattrs))
    /\ calls' = [calls EXCEPT ![i].ret = "resolved", ![i].loads = @ + 1]
    /\ UNCHANGED <<attrs, children, videoHasPlay, video_, vattrs, videoChildren,
                   vmuted, muted_, metadata_, listeners, fallback, layoutCalled,
                   plays, last>>

\* .then(() => dispatch LOAD) of call i: on fulfilment the callback
\* dispatches LOAD and the returned promise resolves; a rejection passes to
\* the returned promise and the callback does not run.
LoadThen(i) ==
    /\ i \in 1..Len(calls)
    /\ LoadThenReady(calls[i])
    /\ IF calls[i].load = "resolved"
       THEN /\ Len(events) < MaxEvents
            /\ events' = Append(events, CustomEvent(VideoEvents.LOAD, vattrs))
            /\ calls' = [calls EXCEPT ![i].ret = "resolved", ![i].loads = @ + 1]
       ELSE /\ events' = events
            /\ calls' = [calls EXCEPT ![i].ret = "rejected"]
    /\ UNCHANGED <<attrs, children, videoHasPlay, video_, vattrs, videoChildren,
                   vmuted, muted_, metadata_, listeners, fallback, layoutCalled,
                   plays, last>>

-----------------------------------------------------------------------------
(* The listeners on the native video.  A native event runs the listeners    *)
(* registered for it in registration order; st is [muted_, events].         *)

\* A faulty variant of MirrorMuted: the event is dispatched and the mirror is not
\* updated.
MirrorMutedStale(st, nativeMuted, videoAttrs) ==
    IF st.muted_ # nativeMuted
    THEN [st EXCEPT !.events =
              Append(@, CustomEvent(IF nativeMuted THEN VideoEvents.MUTED
                                    ELSE VideoEvents.UNMUTED, videoAttrs))]
    ELSE st

\* The volumechange listener.
MirrorMuted(st, nativeMuted, videoAttrs) ==
    IF st.muted_ # nativeMuted
    THEN [muted_ |-> nativeMuted,
          events |-> Append(st.events,
                            CustomEvent(IF nativeMuted THEN VideoEvents.MUTED
                                        ELSE VideoEvents.UNMUTED, videoAttrs))]
    ELSE st

\* One listener handling the native event e.
Handle(l, e, st, nativeMuted, videoAttrs) ==
    CASE l.handler = "forward" ->
             [st EXCEPT !.events = Append(@, CustomEvent(e, videoAttrs))]
      [] l.handler = "mirrorMuted" -> MirrorMuted(st, nativeMuted, videoAttrs)
      [] l.handler = "dispatchPause" ->
             [st EXCEPT !.events = Append(@, CustomEvent(VideoEvents.PAUSE, videoAttrs))]

RECURSIVE RunListeners(_, _, _, _, _)
RunListeners(ls, e, st, nativeMuted, videoAttrs) ==
    IF ls = <<>> THEN st
    ELSE RunListeners(
             Tail(ls), e,
             IF Head(ls).event = e
             THEN Handle(Head(ls), e, st, nativeMuted, videoAttrs) ELSE st,
             nativeMuted, videoAttrs)

NativeEventNames == {"playing", "pause", "ended", "volumechange"}

\* The native video fires event e.
NativeEvent(e) ==
    /\ video_
    /\ LET st == RunListeners(listeners, e, [muted_ |-> muted_, events |-> events],
                              vmuted, vattrs)
       IN  /\ Len(st.events) <= MaxEvents
           /\ muted_' = st.muted_
           /\ events' = st.events
    /\ last' = Returned(e)
    /\ UNCHANGED <<attrs, children, videoHasPlay, video_, vattrs, videoChildren,
                   vmuted, metadata_, listeners, fallback, layoutCalled, calls,
                   plays>>

-----------------------------------------------------------------------------
(* VideoInterface: mute, unmute, play, getMetadata. *)

\* mute() and unmute() assign the native muted property.
SetMuted(value, op) ==
    /\ video_
    /\ vmuted' = value
    /\ last' = Returned(op)
    /\ UNCHANGED <<attrs, children, videoHasPlay, video_, vattrs, videoChildren,
                   muted_, metadata_, listeners, fallback, layoutCalled, calls,
                   plays, events>>

Mute == SetMuted(TRUE, "mute")

Unmute == SetMuted(FALSE, "unmute")

\* What the native play() may return.
PlayReturns == {"undefined", "promise"}

\* A faulty variant of PlayCatches: no rejection handler is attached.
PlayCatchesNothing(ret) == FALSE

\* ret && ret.catch: play() attaches its empty rejection handler.
PlayCatches(ret) == ret = "promise"

\* play(): the native play() returns ret; calling a missing play member
\* throws a TypeError.
Play(ret) ==
    /\ video_
    /\ IF ~videoHasPlay
       THEN last' = Threw("play") /\ plays' = plays
       ELSE /\ last' = Returned("play")
            /\ IF ret = "promise"
               THEN /\ Len(plays) < MaxPlays
                    /\ plays' = Append(plays, [state |-> "pending",
                                               caught |-> PlayCatches(ret)])
               ELSE plays' = plays
    /\ UNCHANGED <<attrs, children, videoHasPlay, video_, vattrs, videoChildren,
                   vmuted, muted_, metadata_, listeners, fallback, layoutCalled,
                   calls, events>>

\* The native video settles the promise play() number i returned; the
\* rejection handler, when attached, runs and does nothing.
PlayPromiseSettle(i, outcome) ==
    /\ i \in 1..Len(plays)
    /\ plays[i].state = "pending"
    /\ plays' = [plays EXCEPT ![i].state = outcome]
    /\ UNCHANGED <<attrs, children, videoHasPlay, video_, vattrs, videoChildren,
                   vmuted, muted_, metadata_, listeners, fallback, layoutCalled,
                   calls, events, last>>

\* A rejection no handler took: the runtime reports it as unhandled.
UnhandledRejection == \E i \in 1..Len(plays) :
    plays[i].state = "rejected" /\ ~plays[i].caught

\* getMetadata()
GetMetadata == metadata_

-----------------------------------------------------------------------------
(* The specification of the source checks: preconnect, build, src           *)
(* mutations and layout over elements with child nodes.                     *)

SrcValues == {None, "", Secure, NonSecure}

Init == InitWith({Element([src |-> v]) : v \in SrcValues},
                 SeqsUpTo(ChildKinds, MaxChildren))

Next ==
    \/ PreconnectCallback
    \/ BuildCallback
    \/ \E m \in Mutations([src |-> SrcValues]) : MutatedAttributesCallback(m)
    \/ LayoutCallback

Spec == Init /\ [][Next]_vars

-----------------------------------------------------------------------------
(* The specification of attribute propagation: build, mutations of the     *)
(* layout-time attributes, layout.                                         *)

LayoutAttrValues ==
    [src |-> {None, Secure, NonSecure}, loop |-> {None, ""},
     preload |-> {None, "auto"}]

InitAttr == InitWith({Element(e) : e \in [src : {None, Secure}, loop : {None, ""},
                                          preload : {None, "auto"}]},
                     {<<>>})

NextAttr ==
    \/ BuildCallback
    \/ \E m \in Mutations(LayoutAttrValues) : MutatedAttributesCallback(m)
    \/ LayoutCallback

SpecAttr == InitAttr /\ [][NextAttr]_vars

-----------------------------------------------------------------------------
(* The specification of load completion: build, layout, the load promise   *)
(* and its continuation.                                                    *)

InitLoad == InitWith({Element([src |-> v]) : v \in {None, Secure}},
                     SeqsUpTo({[tag |-> "source", src |-> Secure],
                               [tag |-> "#text", src |-> None]}, 1))

NextLoad ==
    \/ BuildCallback
    \/ LayoutCallback
    \/ \E i \in 1..MaxLayouts, outcome \in {"resolved", "rejected"} :
           LoadPromiseSettle(i, outcome)
    \/ \E i \in 1..MaxLayouts : LoadThen(i)

SpecLoad == InitLoad /\ [][NextLoad]_vars

-----------------------------------------------------------------------------
(* The specification of the metadata record: build and mutations of the    *)
(* attributes it is gathered from.                                          *)

MetadataValues ==
    [title |-> {None, "", "Title"}, artist |-> {None, "", "Artist"},
     album |-> {None, "", "Album"}, artwork |-> {None, "", "https://cdn.example/art.png"},
     poster |-> {None, "", "https://cdn.example/poster.png"}]

InitMeta == InitWith({Element(e) : e \in [title : MetadataValues.title,
                                          artwork : MetadataValues.artwork,
                                          poster : MetadataValues.poster]},
                     {<<>>})

NextMeta ==
    \/ BuildCallback
    \/ \E m \in Mutations(MetadataValues) : MutatedAttributesCallback(m)

SpecMeta == InitMeta /\ [][NextMeta]_vars

-----------------------------------------------------------------------------
(* The specification of playback: build, the VideoInterface methods, the   *)
(* native events and the play promise.                                      *)

InitMedia == InitWith({Element(<<>>)}, {<<>>})

NextMedia ==
    \/ BuildCallback
    \/ Mute
    \/ Unmute
    \/ \E e \in NativeEventNames : NativeEvent(e)
    \/ \E ret \in PlayReturns : Play(ret)
    \/ \E i \in 1..MaxPlays, outcome \in {"resolved", "rejected"} :
           PlayPromiseSettle(i, outcome)

SpecMedia == InitMedia /\ [][NextMedia]_vars

-----------------------------------------------------------------------------
(* Source checks (Spec). *)

SrcMutations == Mutations([src |-> SrcValues])

\* Some node of `nodes` carries a non-secure src.
SomeNonSecure(nodes) == \E i \in 1..Len(nodes) : IsNonSecureUrl(nodes[i].src)

\* Some <source> node of `nodes` carries a non-secure src.
SomeNonSecureSource(nodes) == \E i \in 1..Len(nodes) :
    nodes[i].tag = "source" /\ IsNonSecureUrl(nodes[i].src)

\* The source preconnectCallback connects to, stated apart from the code:
\* the element's src when non-empty, else the src of the first <source>
\* descendant in document order, else nothing.
SelectedSource ==
    LET nodes == children \o videoChildren
        sources == {i \in 1..Len(nodes) : nodes[i].tag = "source"}
    IN  IF Truthy(attrs["src"]) THEN attrs["src"]
        ELSE IF sources = {} THEN None
        ELSE nodes[CHOOSE i \in sources : \A j \in sources : i <= j].src

\* C1, as stated: layoutCallback on a built element throws whenever the
\* element's src or the src of one of its child nodes is non-secure;
\* mutatedAttributesCallback (read here as on a built element too) throws
\* whenever a reported src change leaves the element with a non-secure src;
\* preconnectCallback throws whenever the element's src or a child source's
\* src is non-secure.
C1_AnyNonSecureSourceThrows ==
    [][ /\ (LayoutCallback /\ (IsNonSecureUrl(attrs["src"]) \/ SomeNonSecure(children)))
               => last'.threw
        /\ \A m \in SrcMutations :
               (MutatedAttributesCallback(m) /\ video_ /\ IsNonSecureUrl(m["src"]))
                   => last'.threw
        /\ (PreconnectCallback
                /\ (IsNonSecureUrl(attrs["src"]) \/ SomeNonSecureSource(children)))
               => last'.threw ]_vars

\* C1, amended: layoutCallback on a built element whose native video can
\* play throws, returning no promise, whenever the element's src or the src
\* of one of its child nodes is non-secure; mutatedAttributesCallback on a
\* built element throws whenever a reported src change leaves the element
\* with a non-secure src; preconnectCallback throws whenever the source it
\* selects (the element's src when non-empty, else the first source
\* descendant's src) is non-secure.
C1_SelectedNonSecureSourceThrows ==
    [][ /\ (LayoutCallback /\ videoHasPlay
                /\ (IsNonSecureUrl(attrs["src"]) \/ SomeNonSecure(children)))
               => (last' = Threw("layout") /\ calls' = calls)
        /\ \A m \in SrcMutations :
               (MutatedAttributesCallback(m) /\ video_ /\ IsNonSecureUrl(m["src"]))
                   => last' = Threw("mutated")
        /\ (PreconnectCallback /\ IsNonSecureUrl(SelectedSource))
               => last' = Threw("preconnect") ]_vars

\* C1, witness: a layoutCallback on a supported video has thrown on a child
\* node's non-secure src, the element's own src being secure.
C1_Witness ==
    /\ last = Threw("layout")
    /\ videoHasPlay
    /\ attrs["src"] = Secure
    /\ videoChildren # <<>>
    /\ SomeNonSecure(children)

\* C10, as stated: the native video's src is absent or a secure URL, and
\* every node moved under the native video has no src or a secure src.
C10_VideoSrcAbsentOrSecure ==
    /\ vattrs["src"] \in {None, Secure}
    /\ \A i \in 1..Len(videoChildren) : videoChildren[i].src \in {None, Secure}

\* C10, amended: the native video's src is absent, empty or a secure URL,
\* and every node moved under the native video has no src, an empty src or
\* a secure src: a non-secure URL never reaches the native video.
C10_NoNonSecureUrlReachesVideo ==
    /\ vattrs["src"] \in {None, "", Secure}
    /\ \A i \in 1..Len(videoChildren) : videoChildren[i].src \in {None, "", Secure}

\* C10, witness: the video holds a secure src and a moved child, and the
\* last call, a report of a non-secure src, has thrown.
C10_Witness ==
    /\ last = Threw("mutated")
    /\ attrs["src"] = NonSecure
    /\ vattrs["src"] = Secure
    /\ videoChildren # <<>>

-----------------------------------------------------------------------------
(* Attribute propagation (SpecAttr). *)

LayoutMutations == Mutations(LayoutAttrValues)

LayoutAttrs == Range(ATTRS_TO_PROPAGATE_ON_LAYOUT)

\* The native video as buildCallback must leave the layout-time attributes.
NotYetLaidOut(videoAttrs) ==
    /\ videoAttrs["src"] = None
    /\ videoAttrs["loop"] = None
    /\ videoAttrs["preload"] = "none"

\* C4, as stated: in every state between buildCallback and the first
\* layoutCallback, whatever mutations are delivered in between, the native
\* video carries no src and no loop attribute and its preload is 'none'.
C4_NothingCopiedBeforeLayout ==
    (video_ /\ ~layoutCalled) => NotYetLaidOut(vattrs)

\* C4, amended: buildCallback leaves the native video with no src, no loop
\* and preload 'none'; after it, the src, loop or preload of the native video
\* changes only in a layoutCallback or in a mutatedAttributesCallback that
\* reports that attribute (so the three keep their build-time values until
\* the first layoutCallback unless a mutation reporting one is delivered).
C4_CopiedByLayoutOrReportedMutation ==
    [][ /\ BuildCallback => NotYetLaidOut(vattrs')
        /\ \A a \in LayoutAttrs :
               vattrs'[a] # vattrs[a] =>
                   \/ BuildCallback
                   \/ LayoutCallback
                   \/ \E m \in LayoutMutations :
                          Reported(m, a) /\ MutatedAttributesCallback(m) ]_vars

\* C4, witness: before the first layoutCallback a reported mutation has
\* copied src and loop to the native video.
C4_Witness ==
    /\ video_
    /\ ~layoutCalled
    /\ last = Returned("mutated")
    /\ vattrs["src"] = Secure
    /\ vattrs["loop"] = ""

\* Whether the src a call reports fails the secure-URL assertion.
ReportedSrcFails(m) == Reported(m, "src") /\ IsNonSecureUrl(m["src"])

\* C8, as stated: on a built element a call that reports a src change
\* dispatches RELOAD exactly once, after the new src has been copied to the
\* native video, unless the src fails the assertion; a call that reports no
\* src change dispatches no RELOAD; a call before buildCallback dispatches
\* nothing and changes neither the metadata record nor the native video.
C8_ReloadOncePerSrcChange ==
    [][ \A m \in LayoutMutations : MutatedAttributesCallback(m) =>
            IF ~video_
            THEN events' = events /\ metadata_' = metadata_ /\ vattrs' = vattrs
            ELSE IF Reported(m, "src") /\ ~ReportedSrcFails(m)
            THEN /\ vattrs'["src"] = m["src"]
                 /\ events' = Append(events, [type |-> VideoEvents.RELOAD,
                                              videoSrc |-> m["src"]])
            ELSE events' = events ]_vars

-----------------------------------------------------------------------------
(* The metadata record (SpecMeta). *)

\* C2, as stated: after buildCallback and after every later
\* mutatedAttributesCallback, getMetadata() returns title, artist and album
\* equal to the element's current attribute of that name, or '' when absent,
\* and an artwork src equal to the current artwork attribute, else the
\* current poster attribute, else ''.
C2_MetadataFollowsAttributes ==
    video_ =>
        /\ GetMetadata.title = (IF attrs["title"] = None THEN "" ELSE attrs["title"])
        /\ GetMetadata.artist = (IF attrs["artist"] = None THEN "" ELSE attrs["artist"])
        /\ GetMetadata.album = (IF attrs["album"] = None THEN "" ELSE attrs["album"])
        /\ GetMetadata.artwork =
               (IF Truthy(attrs["artwork"]) THEN attrs["artwork"]
                ELSE IF Truthy(attrs["poster"]) THEN attrs["poster"] ELSE "")

-----------------------------------------------------------------------------
(* Load completion and the fallback (SpecLoad). *)

RECURSIVE SumLoads(_)
\* The LOAD events the continuations of the calls cs have dispatched.
SumLoads(cs) == IF cs = <<>> THEN 0 ELSE Head(cs).loads + SumLoads(Tail(cs))

IsLoad(e) == e.type = VideoEvents.LOAD

\* C5: for every layoutCallback call on a supported video, LOAD is
\* dispatched only once the call's load promise has resolved, at most once
\* per call; the promise the call returned resolves only after LOAD has been
\* dispatched; while the load promise is pending, or once it has rejected, the
\* call dispatches no LOAD; and no LOAD is dispatched by anything else.
C5_LoadOnlyAfterReady ==
    /\ \A i \in 1..Len(calls) :
           LET c == calls[i]
           IN  /\ c.loads <= 1
               /\ c.loads = 1 => c.load = "resolved"
               /\ (c.load # "none" /\ c.ret = "resolved") => c.loads = 1
               /\ c.load \in {"pending", "rejected"} =>
                      (c.loads = 0 /\ c.ret # "resolved")
    /\ Len(SelectSeq(events, IsLoad)) = SumLoads(calls)

\* C5, witness: one call has announced its load and resolved, another's
\* load promise has rejected and announced nothing.
C5_Witness ==
    /\ \E i \in 1..Len(calls) : calls[i].loads = 1 /\ calls[i].ret = "resolved"
    /\ \E j \in 1..Len(calls) : calls[j].load = "rejected" /\ calls[j].ret = "rejected"
    /\ Len(SelectSeq(events, IsLoad)) = 1

\* C6: when the native video has no play member, layoutCallback turns the
\* fallback on and returns a resolved promise without throwing, without
\* touching the native video's attributes and without moving a child node,
\* and no LOAD is ever dispatched; supportsPlatform() is false exactly then.
C6_UnsupportedFallsBack ==
    /\ [](SupportsPlatform <=> videoHasPlay)
    /\ [](~videoHasPlay => SelectSeq(events, IsLoad) = <<>>)
    /\ [][ (LayoutCallback /\ ~videoHasPlay) =>
               /\ fallback'
               /\ last' = Returned("layout")
               /\ calls' = Append(calls, [load |-> "none", ret |-> "resolved",
                                          loads |-> 0])
               /\ vattrs' = vattrs
               /\ children' = children
               /\ videoChildren' = videoChildren ]_vars

\* C6, witness: layoutCallback has returned on an unsupported video whose
\* element has a secure src and a child node: the fallback is on, nothing
\* was copied or moved.
C6_Witness ==
    /\ ~videoHasPlay
    /\ last = Returned("layout")
    /\ fallback
    /\ attrs["src"] = Secure
    /\ children # <<>>
    /\ vattrs["src"] = None
    /\ videoChildren = <<>>

-----------------------------------------------------------------------------
(* Playback (SpecMedia). *)

IsMuteEvent(e) == e.type \in {VideoEvents.MUTED, VideoEvents.UNMUTED}

IsPause(e) == e.type = VideoEvents.PAUSE

\* The types of the events in `log`, in order.
Types(log) == [i \in 1..Len(log) |-> log[i].type]

\* C3: a MUTED or UNMUTED event is dispatched only by a volumechange at
\* which the native muted flag differs from the mirror; the mirror equals
\* the native flag after every volumechange handler; a volumechange that
\* leaves the flag unchanged dispatches nothing; and the MUTED and UNMUTED
\* events dispatched strictly alternate, beginning with MUTED.
C3_MutedMirrorAlternates ==
    /\ [](LET log == Types(SelectSeq(events, IsMuteEvent))
          IN  \A i \in 1..Len(log) :
                  log[i] = IF i % 2 = 1 THEN VideoEvents.MUTED
                           ELSE VideoEvents.UNMUTED)
    /\ [][ /\ NativeEvent("volumechange") =>
                  /\ muted_' = vmuted
                  /\ events' = IF muted_ = vmuted THEN events
                               ELSE Append(events,
                                        [type |-> IF vmuted THEN VideoEvents.MUTED
                                                  ELSE VideoEvents.UNMUTED,
                                         videoSrc |-> vattrs["src"]])
           /\ SelectSeq(events', IsMuteEvent) # SelectSeq(events, IsMuteEvent) =>
                  (NativeEvent("volumechange") /\ muted_ # vmuted)
           /\ muted_' # muted_ => NativeEvent("volumechange") ]_vars

\* C3, witness: mute, unmute and mute again, each followed by its
\* volumechange, have dispatched MUTED, UNMUTED, MUTED.
C3_Witness ==
    /\ Types(SelectSeq(events, IsMuteEvent))
           = <<VideoEvents.MUTED, VideoEvents.UNMUTED, VideoEvents.MUTED>>
    /\ muted_ /\ vmuted
    /\ last = Returned("volumechange")

\* C7: play() on a built element whose native video has a play member
\* returns normally whether the native play() returns a promise or nothing;
\* neither the call nor the settling of the promise, resolved or rejected,
\* dispatches an event or changes the muted mirror or the metadata record;
\* and no rejection is left unhandled.
C7_RejectedPlayDiscarded ==
    /\ []~UnhandledRejection
    /\ [][ /\ \A ret \in PlayReturns : (Play(ret) /\ videoHasPlay) =>
                  /\ last' = Returned("play")
                  /\ events' = events
                  /\ muted_' = muted_
                  /\ metadata_' = metadata_
           /\ \A i \in 1..Len(plays), outcome \in {"resolved", "rejected"} :
                  PlayPromiseSettle(i, outcome) =>
                      /\ events' = events
                      /\ muted_' = muted_
                      /\ metadata_' = metadata_
                      /\ last' = last ]_vars

\* C7, witness: a promise returned by the native play() has rejected after
\* play() returned normally.
C7_Witness ==
    /\ \E i \in 1..Len(plays) : plays[i].state = "rejected"
    /\ last = Returned("play")
    /\ events = <<>>

\* C9: every native 'ended' makes the element dispatch ENDED and then
\* PAUSE, once each; every native 'playing' and 'pause' is forwarded as
\* exactly one event of the same kind; a PAUSE on the element is caused only
\* by a native 'pause' or a native 'ended'.
C9_PlaybackEventsForwarded ==
    [][ /\ NativeEvent("ended") =>
               Types(events') = Types(events) \o <<VideoEvents.ENDED, VideoEvents.PAUSE>>
        /\ NativeEvent("playing") =>
               Types(events') = Append(Types(events), VideoEvents.PLAYING)
        /\ NativeEvent("pause") =>
               Types(events') = Append(Types(events), VideoEvents.PAUSE)
        /\ SelectSeq(events', IsPause) # SelectSeq(events, IsPause) =>
               (NativeEvent("pause") \/ NativeEvent("ended")) ]_vars

\* C9, witness: a native 'playing' and then a native 'ended' have been
\* handled: the log is PLAYING, ENDED, PAUSE.
C9_Witness ==
    /\ Types(events) = <<VideoEvents.PLAYING, VideoEvents.ENDED, VideoEvents.PAUSE>>
    /\ last = Returned("ended")

====
